---- MODULE Spec2Model ----
(***************************************************************************)
(* easyAdhan: the audio playback session (HomeScreen.tsx playAzan/stopAzan *)
(* and services/audioManager), the persisted playback state, and the       *)
(* notification scheduler (HomeScreen.tsx and services/notificationManager)*)
(* as state machines.                                                      *)
(*                                                                         *)
(* JavaScript runs one task at a time: every action below is one run of    *)
(* the event loop (an event handler's synchronous part, or the             *)
(* continuation of an async function from one await to the next).          *)
(* A React function component's handlers read the state of the render that *)
(* created them: a handler's closure is a snapshot ("rendered"), not the   *)
(* live state.                                                             *)
(*                                                                         *)
(* Three specifications share the variables:                               *)
(*   Spec       HomeScreen's playback session and its persisted state      *)
(*   MgrSpec    the notification listeners and audioManager's session      *)
(*   SchedSpec  the notification scheduler (HomeScreen's scheduling        *)
(*              effect, notificationManager, the background task)          *)
(***************************************************************************)
EXTENDS Integers, Sequences, FiniteSets, Bags, TLC

\* ------------------------------------------------------------- bounds
MaxHandles == 2
MaxTasks == 2
MaxPending == 1
StartClock == 1000
FreshAge == 60
StaleAge == 600
MaxCycles == 2
MaxStarts == 3
MaxTicks == 1
MaxFailures == 1
MaxSeconds == 3
Lead == 2

\* ---------------------------------------------------------- constants
GraceMs == 300000
FiveMinutesMs == 300000

VARIABLES
    \* SettingsContext
    azanEnabled, notificationsEnabled, settingsIsLoading, settingsStore,
    \* HomeScreen state (useState / useRef)
    azanPlaying, audioLoading, isLoadingAzanState, isInitializing, soundRef,
    \* the closure of HomeScreen's last committed render
    rendered,
    \* services/audioManager module state
    mgrSound, mgrIsPlaying,
    \* expo-av: every audio handle created so far
    handles,
    \* async functions suspended at an await, timers, storage operations
    tasks, timers, pendingWrites, loadAzanStatePc,
    \* AsyncStorage entry under AZAN_STATE_KEY
    azanStore,
    \* the wall clock, in whole seconds since local midnight of day 0
    clock,
    \* HomeScreen scheduling state, the scheduling cycles in flight, and the
    \* notifications the operating system holds
    newPrayerTimes, notificationsScheduled, fetchPc,
    cycles, cyclesBegun, scheduled, failures, ticks,
    \* the countdown: HomeScreen's remainingTime, the prayer the last
    \* getNextPrayer call returned, and what the last calls were applied to
    remainingTime, nextPrayer, observed,
    \* the view: the countdown intervals that are set (each with the timings its
    \* callback closed over), whether HomeScreen is mounted, and HomeScreen's
    \* errorMsg and prayerLoading
    intervals, mounted, errorMsg, prayerLoading,
    \* observations: the last scheduling cycle that ended, the last Alert shown,
    \* and the shape of the last start burst
    completed, lastAlert, twoStarts,
    \* a storage call under AZAN_STATE_KEY has thrown (the console.error of the
    \* catch in loadAzanState and saveAzanState)
    storageError

vars == <<azanEnabled, notificationsEnabled, settingsIsLoading, settingsStore, azanPlaying, audioLoading,
          isLoadingAzanState, isInitializing, soundRef, rendered, mgrSound,
          mgrIsPlaying, handles, tasks, timers, pendingWrites, loadAzanStatePc,
          azanStore, clock, newPrayerTimes, notificationsScheduled,
          fetchPc, cycles, cyclesBegun, scheduled, failures, ticks,
          completed, remainingTime, nextPrayer, observed, intervals, mounted,
          errorMsg, prayerLoading, lastAlert, twoStarts, storageError>>

ViewVars == <<intervals, mounted, errorMsg, prayerLoading>>

CountdownVars == <<remainingTime, nextPrayer, observed, ViewVars>>

SchedVars == <<newPrayerTimes, notificationsScheduled, fetchPc,
               cycles, cyclesBegun, scheduled, failures, ticks, completed, CountdownVars>>


\* ------------------------------------------------------------ helpers
NoHandle == 0
\* AsyncStorage holds strings: JSON.stringify writes an object as its keys and
\* values in order, JSON.parse reads a key's value back; getItem of a missing
\* key is null
Null == <<>>
JSONstringifyAzan(isPlaying, timestamp) ==
    <<"isPlaying", isPlaying, "timestamp", timestamp>>
JSONstringifySettings(n, a) ==
    <<"notificationsEnabled", n, "azanEnabled", a>>
JSONparse(str, key) ==
    str[(CHOOSE i \in DOMAIN str : i % 2 = 1 /\ str[i] = key) + 1]

RemoveAt(s, i) == [j \in 1..(Len(s) - 1) |-> IF j < i THEN s[j] ELSE s[j + 1]]

\* Date.now(), in milliseconds
DateNow == clock * 1000

\* expo-av: a handle is loaded from its creation until unloadAsync
Loaded(h) == handles[h].st \in {"playing", "ended", "stopped"}
ActiveHandles == {h \in 1..Len(handles) : Loaded(h)}

\* newPrayerTimes before the fetch (null): no time of day for any prayer
NoTimings == [Fajr |-> <<>>, Dhuhr |-> <<>>, Asr |-> <<>>, Maghrib |-> <<>>, Isha |-> <<>>]

\* remainingTime before the first countdown tick (null)
NoRemainingTime == [hours |-> -1, minutes |-> -1, seconds |-> -1]
\* nothing has been computed yet
NothingObserved == [nextAt |-> -1, arg |-> "", at |-> -1, prev |-> -1]

\* what a render of the component tree closes over
Snapshot ==
    [azanPlaying |-> azanPlaying, audioLoading |-> audioLoading,
     azanEnabled |-> azanEnabled, notificationsEnabled |-> notificationsEnabled,
     settingsIsLoading |-> settingsIsLoading,
     isLoadingAzanState |-> isLoadingAzanState, isInitializing |-> isInitializing,
     newPrayerTimes |-> newPrayerTimes, notificationsScheduled |-> notificationsScheduled]

\* the closure of HomeScreen's first render, which the effects with an empty
\* dependency list keep for the life of the component
MountClosure ==
    [azanPlaying |-> "null", audioLoading |-> FALSE,
     azanEnabled |-> TRUE, notificationsEnabled |-> TRUE,
     settingsIsLoading |-> TRUE,
     isLoadingAzanState |-> TRUE, isInitializing |-> TRUE,
     newPrayerTimes |-> NoTimings, notificationsScheduled |-> FALSE]

AzanTitle == "Azan Time"
FeedbackTitle == "Easy Adhan"
ManagerTitle == "Prayer Time"
Titles == {AzanTitle, FeedbackTitle, ManagerTitle}

\* the part of a render's closure that playAzan and stopAzan read
Closure(r) == [azanPlaying |-> r.azanPlaying, azanEnabled |-> r.azanEnabled]

\* the async functions suspended at an await form a bag: which one runs on
\* next is up to the collaborator that settles first
\* (en observes the live preference at the moment of the call)
Task(kind, pc, h, c) ==
    [kind |-> kind, pc |-> pc, h |-> h, c |-> Closure(c), en |-> azanEnabled]
Spawn(t) == tasks' = tasks (+) SetToBag({t})
Finish(t) == tasks' = tasks (-) SetToBag({t})
Goto(t, pc, h) ==
    tasks' = (tasks (-) SetToBag({t})) (+) SetToBag({[t EXCEPT !.pc = pc, !.h = h]})
NumTasks == BagCardinality(tasks)

\* an AsyncStorage call is issued at once and completes later; waiter names the
\* async function that awaits it
StorageOp(key, op, val, waiter) == [key |-> key, op |-> op, val |-> val, waiter |-> waiter]
Issue(op) == pendingWrites' = Append(pendingWrites, op)

AudioVars == <<azanPlaying, audioLoading, soundRef, mgrSound, mgrIsPlaying,
               handles, tasks, lastAlert>>


\* ------------------------------------------------------- time of day
\* A time of day is the string the provider returns, "HH:MM": a sequence of
\* characters. split(':') cuts it at the colons, Number reads a decimal field.
Prayers == <<"Fajr", "Dhuhr", "Asr", "Maghrib", "Isha">>

DigitValue(ch) ==
    CASE ch = "0" -> 0 [] ch = "1" -> 1 [] ch = "2" -> 2 [] ch = "3" -> 3
      [] ch = "4" -> 4 [] ch = "5" -> 5 [] ch = "6" -> 6 [] ch = "7" -> 7
      [] ch = "8" -> 8 [] ch = "9" -> 9

RECURSIVE Number(_)
Number(field) ==
    IF field = <<>> THEN 0
    ELSE 10 * Number(SubSeq(field, 1, Len(field) - 1)) + DigitValue(field[Len(field)])

RECURSIVE Split(_)
Split(str) ==
    IF \A i \in DOMAIN str : str[i] # ":"
    THEN <<str>>
    ELSE LET k == CHOOSE i \in DOMAIN str :
                      str[i] = ":" /\ \A j \in 1..(i - 1) : str[j] # ":"
         IN  <<SubSeq(str, 1, k - 1)>> \o Split(SubSeq(str, k + 1, Len(str)))

\* const [hour, minute] = timeStr.split(':').map(Number)
Hour(timeStr) == Number(Split(timeStr)[1])
Minute(timeStr) == Number(Split(timeStr)[2])

SecondsPerDay == 86400
\* local midnight of the day of instant d
StartOfDay(d) == d - (d % SecondsPerDay)
\* a copy of d with setHours(hour), setMinutes(minute), setSeconds(0)
AtTimeOfDay(d, timeStr) == StartOfDay(d) + Hour(timeStr) * 3600 + Minute(timeStr) * 60
\* setDate(getDate() + 1)
NextDay(d) == d + SecondsPerDay
\* getTime(), in milliseconds
GetTime(d) == d * 1000



\* ------------------------------------------- HomeScreen: playAzan/stopAzan
\* a faulty variant: the playing entry is written whatever the argument
saveAzanStateAlwaysPlaying(isPlaying) ==
    Issue(StorageOp("azan", "set", JSONstringifyAzan(TRUE, DateNow), "none"))

\* saveAzanState(isPlaying): the storage call it issues before its await
saveAzanState(isPlaying) ==
    IF isPlaying
    THEN Issue(StorageOp("azan", "set", JSONstringifyAzan(TRUE, DateNow), "none"))
    ELSE Issue(StorageOp("azan", "remove", Null, "none"))

\* playAzan of the render with closure c, up to its first await
playAzan(c) ==
    IF ~c.azanEnabled
    THEN /\ lastAlert' = "Azan Disabled"
         /\ UNCHANGED <<audioLoading, tasks>>
    ELSE IF c.azanPlaying = "true"
    THEN UNCHANGED <<audioLoading, tasks, lastAlert>>
    ELSE /\ audioLoading' = TRUE
         /\ Spawn(Task("homePlay", IF soundRef # NoHandle THEN "stopPrior" ELSE "create", soundRef, c))
         /\ UNCHANGED lastAlert

\* a faulty variant: the catch without the finally's setAudioLoading(false)
HomePlayFailedNoFinally(t) ==
    /\ lastAlert' = "Audio Error"
    /\ UNCHANGED audioLoading
    /\ Finish(t)

\* playAzan's catch and finally
HomePlayFailed(t) ==
    /\ lastAlert' = "Audio Error"
    /\ audioLoading' = FALSE
    /\ Finish(t)

\* await sound.current.stopAsync() settles
HomePlayStopPrior(t) ==
    /\ t.kind = "homePlay" /\ t.pc = "stopPrior"
    /\ \E ok \in BOOLEAN :
         /\ ok => Loaded(t.h)
         /\ IF ok
            THEN /\ handles' = [handles EXCEPT ![t.h].st = "stopped"]
                 /\ IF soundRef = NoHandle
                    THEN HomePlayFailed(t)
                    ELSE /\ Goto(t, "unloadPrior", soundRef)
                         /\ UNCHANGED <<lastAlert, audioLoading>>
            ELSE HomePlayFailed(t) /\ UNCHANGED handles
    /\ UNCHANGED <<azanPlaying, soundRef, mgrSound, mgrIsPlaying>>
    /\ UNCHANGED <<azanEnabled, notificationsEnabled, settingsIsLoading, settingsStore,
                   isLoadingAzanState, isInitializing, rendered, timers,
                   pendingWrites, loadAzanStatePc, azanStore, clock, SchedVars, twoStarts, storageError>>

\* await sound.current.unloadAsync() settles
HomePlayUnloadPrior(t) ==
    /\ t.kind = "homePlay" /\ t.pc = "unloadPrior"
    /\ \E ok \in BOOLEAN :
         IF ok
         THEN /\ handles' = [handles EXCEPT ![t.h].st = "unloaded"]
              /\ Goto(t, "create", t.h)
              /\ UNCHANGED <<lastAlert, audioLoading>>
         ELSE HomePlayFailed(t) /\ UNCHANGED handles
    /\ UNCHANGED <<azanPlaying, soundRef, mgrSound, mgrIsPlaying>>
    /\ UNCHANGED <<azanEnabled, notificationsEnabled, settingsIsLoading, settingsStore,
                   isLoadingAzanState, isInitializing, rendered, timers,
                   pendingWrites, loadAzanStatePc, azanStore, clock, SchedVars, twoStarts, storageError>>

\* await Audio.Sound.createAsync(..., {shouldPlay: true}) settles
HomePlayCreate(t) ==
    /\ t.kind = "homePlay" /\ t.pc = "create"
    /\ \E ok \in BOOLEAN :
         IF ok
         THEN /\ Len(handles) < MaxHandles
              /\ Len(pendingWrites) < MaxPending
              /\ handles' = Append(handles,
                     [st |-> "playing", owner |-> "home", c |-> t.c, en |-> t.en])
              /\ soundRef' = Len(handles) + 1
              /\ azanPlaying' = "true"
              /\ saveAzanState(TRUE)
              /\ audioLoading' = FALSE
              /\ Finish(t)
              /\ UNCHANGED <<lastAlert, twoStarts, storageError>>
         ELSE /\ HomePlayFailed(t)
              /\ twoStarts' = FALSE
              /\ UNCHANGED storageError
              /\ UNCHANGED <<handles, soundRef, azanPlaying, pendingWrites>>
    /\ UNCHANGED <<mgrSound, mgrIsPlaying>>
    /\ UNCHANGED <<azanEnabled, notificationsEnabled, settingsIsLoading, settingsStore,
                   isLoadingAzanState, isInitializing, rendered, timers,
                   loadAzanStatePc, azanStore, clock, SchedVars>>

\* a faulty variant: the finally without its saveAzanState(false)
HomeStopFinallyNoSave ==
    /\ azanPlaying' = "false"
    /\ UNCHANGED pendingWrites

\* stopAzan's finally
HomeStopFinally ==
    /\ azanPlaying' = "false"
    /\ saveAzanState(FALSE)

\* stopAzan of the render with closure c, up to its first await
stopAzan(c) ==
    IF c.azanPlaying # "true"
    THEN UNCHANGED <<azanPlaying, tasks, pendingWrites>>
    ELSE IF soundRef # NoHandle
    THEN /\ Spawn(Task("homeStop", "stop", soundRef, c))
         /\ UNCHANGED <<azanPlaying, pendingWrites>>
    ELSE /\ HomeStopFinally
         /\ UNCHANGED tasks

\* await sound.current.stopAsync() settles
HomeStopStop(t) ==
    /\ t.kind = "homeStop" /\ t.pc = "stop"
    /\ Len(pendingWrites) < MaxPending
    /\ \E ok \in BOOLEAN :
         /\ ok => Loaded(t.h)
         /\ IF ok
            THEN /\ handles' = [handles EXCEPT ![t.h].st = "stopped"]
                 /\ IF soundRef = NoHandle
                    THEN HomeStopFinally /\ Finish(t)
                    ELSE /\ Goto(t, "unload", soundRef)
                         /\ UNCHANGED <<azanPlaying, pendingWrites>>
            ELSE /\ HomeStopFinally
                 /\ Finish(t)
                 /\ UNCHANGED handles
    /\ UNCHANGED <<audioLoading, soundRef, mgrSound, mgrIsPlaying, lastAlert>>
    /\ UNCHANGED <<azanEnabled, notificationsEnabled, settingsIsLoading, settingsStore,
                   isLoadingAzanState, isInitializing, rendered, timers,
                   loadAzanStatePc, azanStore, clock, SchedVars, twoStarts, storageError>>

\* await sound.current.unloadAsync() settles
HomeStopUnload(t) ==
    /\ t.kind = "homeStop" /\ t.pc = "unload"
    /\ Len(pendingWrites) < MaxPending
    /\ \E ok \in BOOLEAN :
         IF ok
         THEN /\ handles' = [handles EXCEPT ![t.h].st = "unloaded"]
              /\ soundRef' = NoHandle
         ELSE UNCHANGED <<handles, soundRef>>
    /\ HomeStopFinally
    /\ Finish(t)
    /\ UNCHANGED <<audioLoading, mgrSound, mgrIsPlaying, lastAlert>>
    /\ UNCHANGED <<azanEnabled, notificationsEnabled, settingsIsLoading, settingsStore,
                   isLoadingAzanState, isInitializing, rendered, timers,
                   loadAzanStatePc, azanStore, clock, SchedVars, twoStarts, storageError>>


\* a faulty variant: the control is not disabled while audioLoading
ButtonEnabledWhileLoading ==
    /\ mounted
    /\ ~rendered.settingsIsLoading
    /\ ~rendered.isLoadingAzanState
    /\ rendered.azanPlaying # "null"

\* the play/stop control is on screen and not disabled
ButtonEnabled ==
    /\ mounted
    /\ ~rendered.settingsIsLoading
    /\ ~rendered.isLoadingAzanState
    /\ ~rendered.audioLoading
    /\ rendered.azanPlaying # "null"

\* a second start of the session of kind k begins while its first start, begun
\* with no handle, is still in flight
SecondStart(k) ==
    /\ NumTasks = 1
    /\ \A t \in DOMAIN tasks : t.kind = k /\ t.pc \in {"mode", "create"}
    /\ handles = <<>>

\* the user presses the control while it shows Play; React commits the updates
\* of a press handler before the next event is delivered (the handler changes
\* no dependency of the scheduling effects, so none of them runs)
PressPlay ==
    /\ ButtonEnabled
    /\ rendered.azanPlaying # "true"
    /\ NumTasks < MaxTasks
    /\ playAzan(rendered)
    /\ twoStarts' = (rendered.azanEnabled /\ SecondStart("homePlay"))
    /\ UNCHANGED storageError
    /\ UNCHANGED <<azanPlaying, soundRef, mgrSound, mgrIsPlaying, handles>>
    /\ UNCHANGED <<azanEnabled, notificationsEnabled, settingsIsLoading, settingsStore,
                   isLoadingAzanState, isInitializing, timers,
                   pendingWrites, loadAzanStatePc, azanStore, clock, SchedVars>>
    /\ rendered' = Snapshot'

\* the user presses the control while it shows Stop
PressStop ==
    /\ ButtonEnabled
    /\ rendered.azanPlaying = "true"
    /\ NumTasks < MaxTasks
    /\ Len(pendingWrites) < MaxPending
    /\ stopAzan(rendered)
    /\ twoStarts' = FALSE
    /\ UNCHANGED storageError
    /\ UNCHANGED <<audioLoading, soundRef, mgrSound, mgrIsPlaying, handles, lastAlert>>
    /\ UNCHANGED <<azanEnabled, notificationsEnabled, settingsIsLoading, settingsStore,
                   isLoadingAzanState, isInitializing, timers,
                   loadAzanStatePc, azanStore, clock, SchedVars>>
    /\ rendered' = Snapshot'

\* --------------------------------------------- services/audioManager
\* stopAzan of the module, up to its first await
mgrStopAzan ==
    IF mgrSound # NoHandle
    THEN Spawn(Task("mgrStop", "stop", mgrSound, MountClosure))
    ELSE UNCHANGED tasks

\* playAzan's catch
MgrPlayFailed(t) ==
    /\ lastAlert' = "Audio Error"
    /\ Finish(t)
    /\ twoStarts' = FALSE
    /\ UNCHANGED storageError

\* await Audio.setAudioModeAsync(...) settles
MgrPlayMode(t) ==
    /\ t.kind = "mgrPlay" /\ t.pc = "mode"
    /\ \E ok \in BOOLEAN :
         IF ok
         THEN /\ Goto(t, IF mgrSound # NoHandle THEN "stopPrior" ELSE "create", mgrSound)
              /\ UNCHANGED <<lastAlert, twoStarts, storageError>>
         ELSE MgrPlayFailed(t)
    /\ UNCHANGED <<azanPlaying, audioLoading, soundRef, mgrSound, mgrIsPlaying, handles>>
    /\ UNCHANGED <<azanEnabled, notificationsEnabled, settingsIsLoading, settingsStore,
                   isLoadingAzanState, isInitializing, rendered, timers,
                   pendingWrites, loadAzanStatePc, azanStore, clock, SchedVars>>

\* await sound.stopAsync() settles
MgrPlayStopPrior(t) ==
    /\ t.kind = "mgrPlay" /\ t.pc = "stopPrior"
    /\ \E ok \in BOOLEAN :
         /\ ok => Loaded(t.h)
         /\ IF ok
            THEN /\ handles' = [handles EXCEPT ![t.h].st = "stopped"]
                 /\ IF mgrSound = NoHandle
                    THEN MgrPlayFailed(t)
                    ELSE /\ Goto(t, "unloadPrior", mgrSound)
                         /\ UNCHANGED <<lastAlert, twoStarts, storageError>>
            ELSE MgrPlayFailed(t) /\ UNCHANGED handles
    /\ UNCHANGED <<azanPlaying, audioLoading, soundRef, mgrSound, mgrIsPlaying>>
    /\ UNCHANGED <<azanEnabled, notificationsEnabled, settingsIsLoading, settingsStore,
                   isLoadingAzanState, isInitializing, rendered, timers,
                   pendingWrites, loadAzanStatePc, azanStore, clock, SchedVars>>

\* await sound.unloadAsync() settles
MgrPlayUnloadPrior(t) ==
    /\ t.kind = "mgrPlay" /\ t.pc = "unloadPrior"
    /\ \E ok \in BOOLEAN :
         IF ok
         THEN /\ handles' = [handles EXCEPT ![t.h].st = "unloaded"]
              /\ Goto(t, "create", t.h)
              /\ UNCHANGED <<lastAlert, twoStarts, storageError>>
         ELSE MgrPlayFailed(t) /\ UNCHANGED handles
    /\ UNCHANGED <<azanPlaying, audioLoading, soundRef, mgrSound, mgrIsPlaying>>
    /\ UNCHANGED <<azanEnabled, notificationsEnabled, settingsIsLoading, settingsStore,
                   isLoadingAzanState, isInitializing, rendered, timers,
                   pendingWrites, loadAzanStatePc, azanStore, clock, SchedVars>>

\* await Audio.Sound.createAsync(..., {shouldPlay: true}) settles
MgrPlayCreate(t) ==
    /\ t.kind = "mgrPlay" /\ t.pc = "create"
    /\ \E ok \in BOOLEAN :
         IF ok
         THEN /\ Len(handles) < MaxHandles
              /\ handles' = Append(handles,
                     [st |-> "playing", owner |-> "mgr", c |-> t.c, en |-> t.en])
              /\ mgrSound' = Len(handles) + 1
              /\ mgrIsPlaying' = TRUE
              /\ Finish(t)
              /\ UNCHANGED <<lastAlert, twoStarts, storageError>>
         ELSE MgrPlayFailed(t) /\ UNCHANGED <<handles, mgrSound, mgrIsPlaying>>
    /\ UNCHANGED <<azanPlaying, audioLoading, soundRef>>
    /\ UNCHANGED <<azanEnabled, notificationsEnabled, settingsIsLoading, settingsStore,
                   isLoadingAzanState, isInitializing, rendered, timers,
                   pendingWrites, loadAzanStatePc, azanStore, clock, SchedVars>>

\* await sound.stopAsync() settles
MgrStopStop(t) ==
    /\ t.kind = "mgrStop" /\ t.pc = "stop"
    /\ \E ok \in BOOLEAN :
         /\ ok => Loaded(t.h)
         /\ IF ok
            THEN /\ handles' = [handles EXCEPT ![t.h].st = "stopped"]
                 /\ IF mgrSound = NoHandle
                    THEN Finish(t)
                    ELSE Goto(t, "unload", mgrSound)
            ELSE Finish(t) /\ UNCHANGED handles
    /\ UNCHANGED <<azanPlaying, audioLoading, soundRef, mgrSound, mgrIsPlaying,
                   lastAlert>>
    /\ UNCHANGED <<azanEnabled, notificationsEnabled, settingsIsLoading, settingsStore,
                   isLoadingAzanState, isInitializing, rendered, timers,
                   pendingWrites, loadAzanStatePc, azanStore, clock, SchedVars, twoStarts, storageError>>

\* await sound.unloadAsync() settles
MgrStopUnload(t) ==
    /\ t.kind = "mgrStop" /\ t.pc = "unload"
    /\ \E ok \in BOOLEAN :
         IF ok
         THEN /\ handles' = [handles EXCEPT ![t.h].st = "unloaded"]
              /\ mgrSound' = NoHandle
              /\ mgrIsPlaying' = FALSE
         ELSE UNCHANGED <<handles, mgrSound, mgrIsPlaying>>
    /\ Finish(t)
    /\ UNCHANGED <<azanPlaying, audioLoading, soundRef, lastAlert>>
    /\ UNCHANGED <<azanEnabled, notificationsEnabled, settingsIsLoading, settingsStore,
                   isLoadingAzanState, isInitializing, rendered, timers,
                   pendingWrites, loadAzanStatePc, azanStore, clock, SchedVars, twoStarts, storageError>>

\* ------------------------------------------------- expo-av: end of stream
\* handle h plays to its end and reports didJustFinish to the observer its
\* creator registered: HomeScreen's calls the stopAzan of the render that
\* created playAzan, audioManager's calls the module's stopAzan
EndOfStream(h) ==
    /\ handles[h].st = "playing"
    /\ handles' = [handles EXCEPT ![h].st = "ended"]
    /\ IF handles[h].owner = "home"
       THEN /\ handles[h].c.azanPlaying = "true" => Len(pendingWrites) < MaxPending
            /\ stopAzan(handles[h].c)
       ELSE /\ NumTasks < MaxTasks
            /\ mgrStopAzan
            /\ UNCHANGED <<azanPlaying, pendingWrites>>
    /\ twoStarts' = FALSE
    /\ UNCHANGED storageError
    /\ UNCHANGED <<audioLoading, soundRef, mgrSound, mgrIsPlaying, lastAlert>>
    /\ UNCHANGED <<azanEnabled, notificationsEnabled, settingsIsLoading, settingsStore,
                   isLoadingAzanState, isInitializing, rendered, timers,
                   loadAzanStatePc, azanStore, clock, SchedVars>>


\* ------------------------------------------------ notification scheduling
\* the prayer times the provider returns: the timetable of the day, which
\* getPrayerTimes fetches, and the slightly shifted timetable of the day after,
\* which the background task fetches
Today ==
    [Fajr |-> <<"0", "5", ":", "0", "0">>, Dhuhr |-> <<"1", "2", ":", "3", "0">>,
     Asr |-> <<"1", "5", ":", "4", "5">>, Maghrib |-> <<"1", "8", ":", "2", "0">>,
     Isha |-> <<"1", "9", ":", "5", "0">>]
Tomorrow ==
    [Fajr |-> <<"0", "5", ":", "0", "1">>, Dhuhr |-> <<"1", "2", ":", "3", "0">>,
     Asr |-> <<"1", "5", ":", "4", "0">>, Maghrib |-> <<"1", "8", ":", "2", "1">>,
     Isha |-> <<"1", "9", ":", "5", "1">>]

\* HomeScreen.schedulePrayerNotifications: the trigger of one prayer, from the
\* now captured once after the cancel
\* a faulty variant: a time that has passed is not moved to the next day
HomeTriggerTimeNoRoll(now, timeStr) == AtTimeOfDay(now, timeStr)

HomeTriggerTime(now, timeStr) ==
    LET triggerTime == AtTimeOfDay(now, timeStr)
    IN  IF triggerTime <= now THEN NextDay(triggerTime) ELSE triggerTime

HomeTimeDiff(now, timeStr) == GetTime(HomeTriggerTime(now, timeStr)) - GetTime(now)

\* the loop runs without suspending over the prayers it skips: the position of
\* the first prayer from position i on that passes the test, Len(Prayers) + 1
\* when the loop runs off its end
RECURSIVE HomeNextToSchedule(_, _, _)
HomeNextToSchedule(timings, now, i) ==
    IF i > Len(Prayers) THEN i
    ELSE IF HomeTimeDiff(now, timings[Prayers[i]]) > FiveMinutesMs THEN i
    ELSE HomeNextToSchedule(timings, now, i + 1)

\* notificationManager.schedulePrayerNotifications: the trigger of one prayer,
\* from the now taken in that prayer's iteration
MgrPrayerDate(now, timeStr) ==
    LET prayerDate == AtTimeOfDay(now, timeStr)
    IN  IF prayerDate < now THEN NextDay(prayerDate) ELSE prayerDate

\* a scheduled notification as the operating system holds it; by is the cycle
\* that created it (0: none), gen the number of cycles begun when it was
\* created, ahead tells whether its trigger lies more than five minutes after
\* the now it was computed from, first whether its trigger is the first
\* instant strictly after that now with the trigger's time of day
Reminder(title, name, trigger, by, now) ==
    [title |-> title, prayerName |-> name, trigger |-> trigger, by |-> by,
     gen |-> cyclesBegun, ahead |-> GetTime(trigger) - GetTime(now) > FiveMinutesMs,
     first |-> trigger > now /\ trigger - now <= SecondsPerDay]

PrayerReminders == {n \in scheduled : n.title \in {AzanTitle, ManagerTitle}}

\* a faulty variant: a cancel-all that cancels nothing
CancelNothing == UNCHANGED scheduled
\* Notifications.cancelAllScheduledNotificationsAsync, when it resolves
cancelAllScheduledNotificationsAsync == scheduled' = {}

\* a faulty variant: schedulePrayerNotifications without its first statement
CancelAllSkipped == UNCHANGED scheduled
\* notificationManager.cancelAllNotifications
cancelAllNotifications == cancelAllScheduledNotificationsAsync

NoCycle ==
    [id |-> 0, impl |-> "none", timings |-> NoTimings, alone |-> FALSE,
     returned |-> FALSE, failed |-> FALSE, abandoned |-> 0, second |-> FALSE]

\* a scheduling cycle starts and suspends at its cancel call; a cycle that
\* shares any of its time with another is not alone
BeginCycle(impl, timings) ==
    /\ cyclesBegun' = cyclesBegun + 1
    /\ cycles' = {[c EXCEPT !.alone = FALSE] : c \in cycles} \cup
                 {[id |-> cyclesBegun + 1, impl |-> impl, pc |-> "cancel", idx |-> 0,
                   now |-> 0, timings |-> timings, alone |-> cycles = {},
                   failed |-> FALSE]}

Resume(c, idx, now, failed) ==
    /\ cycles' = (cycles \ {c}) \cup
                 {[c EXCEPT !.pc = "create", !.idx = idx, !.now = now, !.failed = failed]}
    /\ UNCHANGED completed

\* the cycle ends: returned tells a normal return from a throw, abandoned
\* counts the prayers the loop never reached although they pass the cycle's
\* test, second tells that this call and the call before it ran one after the
\* other, with the same timings, and both returned
EndCycle(c, returned, failed, abandoned) ==
    /\ cycles' = cycles \ {c}
    /\ completed' = [id |-> c.id, impl |-> c.impl, timings |-> c.timings,
                     alone |-> c.alone, returned |-> returned, failed |-> failed,
                     abandoned |-> abandoned,
                     second |-> /\ completed.id = c.id - 1
                                /\ completed.impl = c.impl
                                /\ completed.timings = c.timings
                                /\ completed.alone /\ c.alone
                                /\ completed.returned /\ returned]

\* scheduleOrCancelNotifications after schedulePrayerNotifications returned
HomeScheduled(c, failed) ==
    /\ notificationsScheduled' = TRUE
    /\ timers' = Append(timers, "feedback")
    /\ EndCycle(c, TRUE, failed, 0)

\* scheduleOrCancelNotifications' catch
HomeScheduleError(c, failed, abandoned) ==
    /\ UNCHANGED <<notificationsScheduled, timers>>
    /\ EndCycle(c, FALSE, failed, abandoned)

\* the notification collaborator resolves (ok) or throws; the throws are counted
Outcomes == IF failures < MaxFailures THEN BOOLEAN ELSE {TRUE}
Settle(ok) == failures' = IF ok THEN failures ELSE failures + 1

SchedFrame ==
    /\ UNCHANGED <<AudioVars, twoStarts, storageError>>
    /\ UNCHANGED <<azanEnabled, notificationsEnabled, settingsIsLoading, settingsStore,
                   isLoadingAzanState, isInitializing, rendered, pendingWrites,
                   loadAzanStatePc, azanStore, clock, newPrayerTimes, fetchPc,
                   cyclesBegun, ticks, CountdownVars>>

\* HomeScreen.schedulePrayerNotifications after its cancel call settles: now is
\* captured and the loop runs to its first scheduleNotificationAsync
HomeSchedCancelled(c) ==
    /\ c.impl = "home" /\ c.pc = "cancel"
    /\ \E ok \in Outcomes :
         Settle(ok) /\
         IF ok
         THEN LET now == clock
                  i == HomeNextToSchedule(c.timings, now, 1)
              IN  /\ cancelAllScheduledNotificationsAsync
                  /\ IF i <= Len(Prayers)
                     THEN /\ Resume(c, i, now, FALSE)
                          /\ UNCHANGED <<notificationsScheduled, timers>>
                     ELSE HomeScheduled(c, FALSE)
         ELSE /\ UNCHANGED scheduled
              /\ HomeScheduleError(c, FALSE, 0)
    /\ SchedFrame

\* HomeScreen.schedulePrayerNotifications after a scheduleNotificationAsync
\* settles: the loop runs on to the next one; a throw leaves the loop
HomeSchedCreated(c) ==
    /\ c.impl = "home" /\ c.pc = "create"
    /\ \E ok \in Outcomes :
         Settle(ok) /\
         IF ok
         THEN LET i == HomeNextToSchedule(c.timings, c.now, c.idx + 1)
              IN  /\ scheduled' = scheduled \cup
                         {Reminder(AzanTitle, Prayers[c.idx],
                                   HomeTriggerTime(c.now, c.timings[Prayers[c.idx]]),
                                   c.id, c.now)}
                  /\ IF i <= Len(Prayers)
                     THEN /\ Resume(c, i, c.now, FALSE)
                          /\ UNCHANGED <<notificationsScheduled, timers>>
                     ELSE HomeScheduled(c, FALSE)
         ELSE /\ UNCHANGED scheduled
              /\ HomeScheduleError(c, TRUE,
                     Cardinality({j \in (c.idx + 1)..Len(Prayers) :
                         HomeTimeDiff(c.now, c.timings[Prayers[j]]) > FiveMinutesMs}))
    /\ SchedFrame

\* scheduleOrCancelNotifications with notifications disabled, after its cancel
\* call settles
HomeCancelled(c) ==
    /\ c.impl = "cancel" /\ c.pc = "cancel"
    /\ \E ok \in Outcomes :
         Settle(ok) /\
         IF ok
         THEN /\ cancelAllScheduledNotificationsAsync
              /\ notificationsScheduled' = FALSE
              /\ EndCycle(c, TRUE, FALSE, 0)
         ELSE /\ UNCHANGED <<scheduled, notificationsScheduled>>
              /\ EndCycle(c, FALSE, FALSE, 0)
    /\ UNCHANGED timers
    /\ SchedFrame

\* notificationManager.schedulePrayerNotifications after cancelAllNotifications
\* settles: the first iteration takes now and calls scheduleNotificationAsync
MgrSchedCancelled(c) ==
    /\ c.impl = "mgr" /\ c.pc = "cancel"
    /\ \E ok \in Outcomes :
         Settle(ok) /\
         IF ok
         THEN /\ cancelAllNotifications
              /\ Resume(c, 1, clock, FALSE)
         ELSE /\ UNCHANGED scheduled
              /\ EndCycle(c, FALSE, FALSE, 0)
    /\ UNCHANGED <<notificationsScheduled, timers>>
    /\ SchedFrame

\* notificationManager.schedulePrayerNotifications after a
\* scheduleNotificationAsync settles: a throw is caught inside the iteration
MgrSchedCreated(c) ==
    /\ c.impl = "mgr" /\ c.pc = "create"
    /\ \E ok \in Outcomes :
         /\ Settle(ok)
         /\ IF ok
            THEN scheduled' = scheduled \cup
                     {Reminder(ManagerTitle, Prayers[c.idx],
                               MgrPrayerDate(c.now, c.timings[Prayers[c.idx]]),
                               c.id, c.now)}
            ELSE UNCHANGED scheduled
         /\ IF c.idx < Len(Prayers)
            THEN Resume(c, c.idx + 1, clock, c.failed \/ ~ok)
            ELSE EndCycle(c, TRUE, c.failed \/ ~ok, 0)
    /\ UNCHANGED <<notificationsScheduled, timers>>
    /\ SchedFrame

\* App's background task after its fetch of the next day's timings: it calls
\* notificationManager.schedulePrayerNotifications; the task is registered with
\* a minimum interval of twelve hours, so one run has ended before the next
BackgroundFetchTask(timings) ==
    /\ cyclesBegun < MaxCycles
    /\ \A c \in cycles : c.impl # "mgr"
    /\ BeginCycle("mgr", timings)
    /\ UNCHANGED <<AudioVars, twoStarts, storageError>>
    /\ UNCHANGED <<azanEnabled, notificationsEnabled, settingsIsLoading, settingsStore,
                   isLoadingAzanState, isInitializing, rendered, timers, pendingWrites,
                   loadAzanStatePc, azanStore, clock, newPrayerTimes,
                   notificationsScheduled, fetchPc, scheduled,
                   failures, ticks, completed, CountdownVars>>

\* a faulty variant: the scheduling effect without the isInitializing test of
\* its guard
RunEffectsNoInitGuard(prev, cur) ==
    LET starts == /\ \/ prev.newPrayerTimes # cur.newPrayerTimes
                     \/ prev.notificationsEnabled # cur.notificationsEnabled
                     \/ prev.notificationsScheduled # cur.notificationsScheduled
                     \/ prev.isInitializing # cur.isInitializing
                  /\ cur.newPrayerTimes # NoTimings
                  /\ ~cur.notificationsScheduled
        settingsChanged == prev.notificationsEnabled # cur.notificationsEnabled
        initialized == /\ \/ prev.newPrayerTimes # cur.newPrayerTimes
                          \/ prev.isInitializing # cur.isInitializing
                       /\ cur.newPrayerTimes # NoTimings
                       /\ ~cur.isInitializing
    IN  /\ IF starts
           THEN BeginCycle(IF cur.notificationsEnabled THEN "home" ELSE "cancel",
                           cur.newPrayerTimes)
           ELSE UNCHANGED <<cycles, cyclesBegun>>
        /\ notificationsScheduled' =
               IF settingsChanged \/ initialized THEN FALSE ELSE notificationsScheduled

\* the effects of HomeScreen that depend on scheduling state, run after the
\* commit of render cur over render prev: the scheduling effect, the reset on
\* a settings change, the reset at the end of initialization
RunEffects(prev, cur) ==
    LET starts == /\ \/ prev.newPrayerTimes # cur.newPrayerTimes
                     \/ prev.notificationsEnabled # cur.notificationsEnabled
                     \/ prev.notificationsScheduled # cur.notificationsScheduled
                     \/ prev.isInitializing # cur.isInitializing
                  /\ cur.newPrayerTimes # NoTimings
                  /\ ~cur.notificationsScheduled
                  /\ ~cur.isInitializing
        settingsChanged == prev.notificationsEnabled # cur.notificationsEnabled
        initialized == /\ \/ prev.newPrayerTimes # cur.newPrayerTimes
                          \/ prev.isInitializing # cur.isInitializing
                       /\ cur.newPrayerTimes # NoTimings
                       /\ ~cur.isInitializing
    IN  /\ IF starts
           THEN BeginCycle(IF cur.notificationsEnabled THEN "home" ELSE "cancel",
                           cur.newPrayerTimes)
           ELSE UNCHANGED <<cycles, cyclesBegun>>
        /\ notificationsScheduled' =
               IF settingsChanged \/ initialized THEN FALSE ELSE notificationsScheduled

\* getUserLocation after its permission and position calls settle: permission
\* denied, a call that throws, or a position, whose setLocation makes the
\* location effect call getPrayerTimes (up to its fetch)
getUserLocation(outcome) ==
    /\ fetchPc = "location"
    /\ fetchPc' = IF outcome = "position" THEN "fetch" ELSE "done"
    /\ prayerLoading' = (outcome = "position")
    /\ errorMsg' = CASE outcome = "position" -> errorMsg
                      [] outcome = "denied" -> "Permission to access location was denied."
                      [] outcome = "threw" -> "Could not get location"
    /\ UNCHANGED <<AudioVars, twoStarts, storageError>>
    /\ UNCHANGED <<azanEnabled, notificationsEnabled, settingsIsLoading, settingsStore,
                   isLoadingAzanState, isInitializing, rendered, timers, pendingWrites,
                   loadAzanStatePc, azanStore, clock, newPrayerTimes,
                   notificationsScheduled, cycles, cyclesBegun,
                   scheduled, failures, ticks, completed,
                   remainingTime, nextPrayer, observed, intervals, mounted>>

\* getUserLocation as the scheduler meets it: a position (without one the
\* scheduler is where a failed fetch leaves it)
GetUserLocation == getUserLocation("position")

\* what the provider's request can come to: a rejected fetch, a response that
\* is not ok, a body without data, a body whose timings lack a time, and a
\* body with the five times
Responses == {"network error", "not ok", "no data", "time missing", "ok"}

\* json.data.timings of a body that lacks the Asr time
TimeMissing == [Today EXCEPT !.Asr = <<>>]

\* the message getPrayerTimes shows when its request fails
FetchFailedMsg == "Failed to fetch prayer times. Please check your internet connection."

\* getPrayerTimes after its fetch settles with the given response
getPrayerTimes(response) ==
    /\ fetchPc = "fetch"
    /\ fetchPc' = "done"
    /\ CASE response = "ok" ->
              newPrayerTimes' = Today /\ UNCHANGED errorMsg
         [] response = "time missing" ->
              newPrayerTimes' = TimeMissing /\ UNCHANGED errorMsg
         [] OTHER ->
              /\ errorMsg' = FetchFailedMsg
              /\ UNCHANGED newPrayerTimes
    /\ prayerLoading' = FALSE
    /\ UNCHANGED <<AudioVars, twoStarts, storageError>>
    /\ UNCHANGED <<azanEnabled, notificationsEnabled, settingsIsLoading, settingsStore,
                   isLoadingAzanState, isInitializing, rendered, timers, pendingWrites,
                   loadAzanStatePc, azanStore, clock,
                   notificationsScheduled, cycles, cyclesBegun,
                   scheduled, failures, ticks, completed,
                   remainingTime, nextPrayer, observed, intervals, mounted>>

\* getPrayerTimes as the scheduler meets it: the five times, or a failure
GetPrayerTimes == \E response \in {"ok", "network error"} : getPrayerTimes(response)

\* a second passes
Tick ==
    /\ ticks < MaxTicks
    /\ ticks' = ticks + 1
    /\ clock' = clock + 1
    /\ UNCHANGED <<AudioVars, twoStarts, storageError>>
    /\ UNCHANGED <<azanEnabled, notificationsEnabled, settingsIsLoading, settingsStore,
                   isLoadingAzanState, isInitializing, rendered, timers, pendingWrites,
                   loadAzanStatePc, azanStore, newPrayerTimes, fetchPc,
                   notificationsScheduled, cycles, cyclesBegun,
                   scheduled, failures, completed, CountdownVars>>


\* ---------------------------------------------------------- the countdown
\* A Date is modelled to the whole second: setSeconds(0) leaves the
\* milliseconds of the current instant in place, so two Dates built within
\* one call differ by their whole seconds only.

\* getPrayerDate(timeStr), with the instant that new Date() gives
getPrayerDate(timeStr, now) == AtTimeOfDay(now, timeStr)

\* the loop of getNextPrayer from the i-th prayer of its list on
RECURSIVE NextPrayerFrom(_, _, _)
NextPrayerFrom(timings, now, i) ==
    IF i > Len(Prayers)
    THEN "Fajr"
    ELSE IF getPrayerDate(timings[Prayers[i]], now) > now
         THEN Prayers[i]
         ELSE NextPrayerFrom(timings, now, i + 1)

getNextPrayer(timings, now) == NextPrayerFrom(timings, now, 1)

\* a faulty variant: the minutes are not reduced to the minutes of the hour
getRemainingTimeWholeMinutes(prayerTimeStr, now) ==
    LET prayerTime == AtTimeOfDay(now, prayerTimeStr)
        diff0 == GetTime(prayerTime) - GetTime(now)
        diff == IF diff0 < 0
                THEN GetTime(NextDay(prayerTime)) - GetTime(now)
                ELSE diff0
        totalSeconds == diff \div 1000
    IN  [hours |-> totalSeconds \div 3600,
         minutes |-> totalSeconds \div 60,
         seconds |-> totalSeconds % 60]

\* a faulty variant: a time that has passed is not moved to the next day
getRemainingTimeNoRoll(prayerTimeStr, now) ==
    LET prayerTime == AtTimeOfDay(now, prayerTimeStr)
        totalSeconds == (GetTime(prayerTime) - GetTime(now)) \div 1000
    IN  [hours |-> totalSeconds \div 3600,
         minutes |-> (totalSeconds % 3600) \div 60,
         seconds |-> totalSeconds % 60]

\* a faulty variant: a time equal to now is moved to the next day as well
getRemainingTimeRollAtZero(prayerTimeStr, now) ==
    LET prayerTime == AtTimeOfDay(now, prayerTimeStr)
        diff0 == GetTime(prayerTime) - GetTime(now)
        diff == IF diff0 <= 0
                THEN GetTime(NextDay(prayerTime)) - GetTime(now)
                ELSE diff0
        totalSeconds == diff \div 1000
    IN  [hours |-> totalSeconds \div 3600,
         minutes |-> (totalSeconds % 3600) \div 60,
         seconds |-> totalSeconds % 60]

getRemainingTime(prayerTimeStr, now) ==
    LET prayerTime == AtTimeOfDay(now, prayerTimeStr)
        diff0 == GetTime(prayerTime) - GetTime(now)
        diff == IF diff0 < 0
                THEN GetTime(NextDay(prayerTime)) - GetTime(now)
                ELSE diff0
        totalSeconds == diff \div 1000
    IN  [hours |-> totalSeconds \div 3600,
         minutes |-> (totalSeconds % 3600) \div 60,
         seconds |-> totalSeconds % 60]

\* the seconds a RemainingTime stands for
TotalSeconds(r) == r.hours * 3600 + r.minutes * 60 + r.seconds

\* what is left alone by the countdown's steps
CountdownFrame ==
    /\ UNCHANGED <<AudioVars, twoStarts, storageError>>
    /\ UNCHANGED <<azanEnabled, notificationsEnabled, settingsIsLoading, settingsStore,
                   isLoadingAzanState, isInitializing, rendered, timers, pendingWrites,
                   loadAzanStatePc, azanStore, newPrayerTimes, fetchPc,
                   notificationsScheduled, cycles, cyclesBegun,
                   scheduled, failures, completed, ViewVars>>

\* one call of getRemainingTime with the time of prayer p; nextAt is the
\* instant of the last getNextPrayer call, prev keeps the total of the call
\* one second earlier for the same prayer
RemainingTimeCall(timings, p, nextAt) ==
    /\ remainingTime' = getRemainingTime(timings[p], clock)
    /\ observed' = [observed EXCEPT !.nextAt = nextAt, !.arg = p, !.at = clock,
                        !.prev = IF observed.arg = p /\ observed.at = clock - 1
                                 THEN TotalSeconds(remainingTime)
                                 ELSE -1]

\* every time of the timings is a string (none is undefined)
AllTimesPresent(timings) == \A i \in DOMAIN Prayers : timings[Prayers[i]] # <<>>

\* the callback of the i-th interval that is set, with the timings it closed
\* over; split of an undefined time throws, and the callback ends there
CountdownInterval(i) ==
    /\ i \in DOMAIN intervals
    /\ IF AllTimesPresent(intervals[i])
       THEN /\ nextPrayer' = getNextPrayer(intervals[i], clock)
            /\ RemainingTimeCall(intervals[i], nextPrayer', clock)
       ELSE UNCHANGED <<nextPrayer, remainingTime, observed>>
    /\ UNCHANGED <<clock, ticks>>
    /\ CountdownFrame

\* clearInterval of the interval an effect run has set with these timings
\* (none when it returned early)
ClearInterval(s, timings) ==
    IF timings = NoTimings \/ \A i \in DOMAIN s : s[i] # timings
    THEN s
    ELSE RemoveAt(s, CHOOSE i \in DOMAIN s : s[i] = timings)

\* a faulty variant: the effect returns no cleanup
CountdownCleanupNone(timings) == intervals

\* the cleanup the countdown effect returned when it ran with these timings:
\* the intervals that stay set
CountdownCleanup(timings) == ClearInterval(intervals, timings)

\* the countdown effect at a commit: when newPrayerTimes has changed, the
\* cleanup of the last run clears its interval and the new run sets one,
\* unless newPrayerTimes is null
CountdownEffect(prev, cur) ==
    IF prev.newPrayerTimes = cur.newPrayerTimes
    THEN UNCHANGED intervals
    ELSE intervals' = IF cur.newPrayerTimes = NoTimings
                      THEN CountdownCleanup(prev.newPrayerTimes)
                      ELSE Append(CountdownCleanup(prev.newPrayerTimes),
                                  cur.newPrayerTimes)

\* HomeScreen unmounts: the cleanups of its effects run. The countdown's
\* interval and the initialization timer are cleared, and the audio cleanup
\* calls unloadAsync on the handle sound.current refers to, without awaiting it
Unmount ==
    /\ mounted
    /\ mounted' = FALSE
    /\ intervals' = CountdownCleanup(rendered.newPrayerTimes)
    /\ timers' = SelectSeq(timers, LAMBDA x : x # "init")
    /\ IF soundRef # NoHandle
       THEN \E ok \in BOOLEAN :
              handles' = IF ok THEN [handles EXCEPT ![soundRef].st = "unloaded"]
                         ELSE handles
       ELSE UNCHANGED handles
    /\ UNCHANGED <<azanPlaying, audioLoading, soundRef, mgrSound, mgrIsPlaying,
                   tasks, lastAlert, twoStarts, storageError>>
    /\ UNCHANGED <<azanEnabled, notificationsEnabled, settingsIsLoading, settingsStore,
                   isLoadingAzanState, isInitializing, rendered, pendingWrites,
                   loadAzanStatePc, azanStore, clock, newPrayerTimes, fetchPc,
                   notificationsScheduled, cycles, cyclesBegun, scheduled, failures,
                   ticks, completed, remainingTime, nextPrayer, observed,
                   errorMsg, prayerLoading>>

\* getRemainingTime applied to the time of one prayer
GetRemainingTime(p) ==
    /\ AllTimesPresent(newPrayerTimes)
    /\ RemainingTimeCall(newPrayerTimes, p, observed.nextAt)
    /\ UNCHANGED <<clock, ticks, nextPrayer>>
    /\ CountdownFrame

\* a second of the countdown passes
Second ==
    /\ ticks < MaxSeconds
    /\ ticks' = ticks + 1
    /\ clock' = clock + 1
    /\ UNCHANGED CountdownVars
    /\ CountdownFrame


\* ------------------------------------------------ notification listeners
\* HomeScreen's two listeners, registered once by an effect with no
\* dependencies: they read the closure of the first render
HomeListener(title) ==
    IF title = AzanTitle /\ MountClosure.azanEnabled /\ ~MountClosure.isInitializing
    THEN timers' = Append(timers, "playAzan")
    ELSE UNCHANGED timers

\* a notification is delivered while the app is in the foreground: App's
\* listener calls audioManager's playAzan, HomeScreen's foreground listener runs
NotificationReceived(title) ==
    /\ NumTasks < MaxTasks
    /\ Spawn(Task("mgrPlay", "mode", NoHandle, MountClosure))
    /\ HomeListener(title)
    /\ twoStarts' = SecondStart("mgrPlay")
    /\ UNCHANGED storageError
    /\ UNCHANGED <<azanPlaying, audioLoading, soundRef, mgrSound, mgrIsPlaying,
                   handles, lastAlert>>
    /\ UNCHANGED <<azanEnabled, notificationsEnabled, settingsIsLoading, settingsStore,
                   isLoadingAzanState, isInitializing, rendered,
                   pendingWrites, loadAzanStatePc, azanStore, clock, SchedVars>>

\* the user taps a notification: HomeScreen's response listener runs
NotificationResponse(title) ==
    /\ HomeListener(title)
    /\ UNCHANGED <<AudioVars, twoStarts, storageError>>
    /\ UNCHANGED <<azanEnabled, notificationsEnabled, settingsIsLoading, settingsStore,
                   isLoadingAzanState, isInitializing, rendered,
                   pendingWrites, loadAzanStatePc, azanStore, clock, SchedVars>>

\* a setTimeout callback runs: the end of the initialization delay, the
\* delayed playAzan of a notification listener, or the feedback notification
\* that follows a scheduling cycle
TimerFires(i) ==
    /\ i \in 1..Len(timers)
    /\ timers' = RemoveAt(timers, i)
    /\ CASE timers[i] = "init" ->
              /\ isInitializing' = FALSE
              /\ UNCHANGED <<audioLoading, tasks, lastAlert, scheduled>>
         [] timers[i] = "playAzan" ->
              /\ NumTasks < MaxTasks
              /\ playAzan(MountClosure)
              /\ UNCHANGED <<isInitializing, scheduled>>
         [] timers[i] = "feedback" ->
              /\ scheduled' = scheduled \cup
                     {Reminder(FeedbackTitle, "", clock + 1, 0, clock)}
              /\ UNCHANGED <<isInitializing, audioLoading, tasks, lastAlert>>
    /\ UNCHANGED <<azanPlaying, soundRef, mgrSound, mgrIsPlaying, handles>>
    /\ UNCHANGED <<azanEnabled, notificationsEnabled, settingsIsLoading, settingsStore,
                   isLoadingAzanState, rendered,
                   pendingWrites, loadAzanStatePc, azanStore, clock, twoStarts, storageError>>
    /\ UNCHANGED <<newPrayerTimes, notificationsScheduled, fetchPc,
                   cycles, cyclesBegun, failures, ticks, completed, CountdownVars>>

\* ------------------------------------------------------ startup loads
\* SettingsProvider's loadSettings after its getItem settles
LoadSettings ==
    /\ settingsIsLoading
    /\ \E ok \in BOOLEAN :
         IF ok /\ settingsStore # Null
         THEN /\ notificationsEnabled' = JSONparse(settingsStore, "notificationsEnabled")
              /\ azanEnabled' = JSONparse(settingsStore, "azanEnabled")
         ELSE UNCHANGED <<notificationsEnabled, azanEnabled>>
    /\ settingsIsLoading' = FALSE
    /\ UNCHANGED <<AudioVars, twoStarts, storageError>>
    /\ UNCHANGED <<settingsStore, isLoadingAzanState, isInitializing, rendered, timers,
                   pendingWrites, loadAzanStatePc, azanStore, clock, SchedVars>>

\* HomeScreen's loadAzanState after its getItem settles
LoadAzanState ==
    /\ loadAzanStatePc = "getItem"
    /\ \E ok \in BOOLEAN :
       /\ storageError' = (storageError \/ ~ok)
       /\ IF ok /\ azanStore # Null
         THEN IF /\ JSONparse(azanStore, "isPlaying")
                 /\ DateNow - JSONparse(azanStore, "timestamp") < GraceMs
              THEN /\ azanPlaying' = "true"
                   /\ isLoadingAzanState' = FALSE
                   /\ loadAzanStatePc' = "done"
                   /\ UNCHANGED pendingWrites
              ELSE /\ Len(pendingWrites) < MaxPending
                   /\ Issue(StorageOp("azan", "remove", Null, "loadAzanState"))
                   /\ loadAzanStatePc' = "removeItem"
                   /\ UNCHANGED <<azanPlaying, isLoadingAzanState>>
         ELSE /\ azanPlaying' = "false"
              /\ isLoadingAzanState' = FALSE
              /\ loadAzanStatePc' = "done"
              /\ UNCHANGED pendingWrites
    /\ UNCHANGED <<audioLoading, soundRef, mgrSound, mgrIsPlaying, handles, tasks,
                   lastAlert, twoStarts>>
    /\ UNCHANGED <<azanEnabled, notificationsEnabled, settingsIsLoading, settingsStore,
                   isInitializing, rendered, timers, azanStore, clock, SchedVars>>

\* ------------------------------------------------------- AsyncStorage
\* the oldest outstanding storage call settles, and the function awaiting it
\* (loadAzanState awaits its removeItem) runs on
StorageComplete ==
    /\ pendingWrites # <<>>
    /\ pendingWrites' = Tail(pendingWrites)
    /\ \E ok \in BOOLEAN :
         /\ IF ok /\ Head(pendingWrites).key = "azan"
            THEN azanStore' = Head(pendingWrites).val
            ELSE UNCHANGED azanStore
         /\ IF ok /\ Head(pendingWrites).key = "settings"
            THEN settingsStore' = Head(pendingWrites).val
            ELSE UNCHANGED settingsStore
         /\ storageError' = (storageError \/ (~ok /\ Head(pendingWrites).key = "azan"))
         /\ IF Head(pendingWrites).waiter = "loadAzanState"
            THEN /\ azanPlaying' = IF ok THEN azanPlaying ELSE "false"
                 /\ isLoadingAzanState' = FALSE
                 /\ loadAzanStatePc' = "done"
            ELSE UNCHANGED <<azanPlaying, isLoadingAzanState, loadAzanStatePc>>
    /\ UNCHANGED <<audioLoading, soundRef, mgrSound, mgrIsPlaying, handles, tasks,
                   lastAlert, twoStarts>>
    /\ UNCHANGED <<azanEnabled, notificationsEnabled, settingsIsLoading,
                   isInitializing, rendered, timers, clock, SchedVars>>

\* ------------------------------------------------------------ settings
\* SettingsContext's toggleAzan, called from the settings switch
toggleAzan ==
    /\ Len(pendingWrites) < MaxPending
    /\ azanEnabled' = ~rendered.azanEnabled
    /\ Issue(StorageOp("settings", "set",
             JSONstringifySettings(rendered.notificationsEnabled, ~rendered.azanEnabled),
             "none"))
    /\ UNCHANGED <<AudioVars, twoStarts, storageError>>
    /\ UNCHANGED <<notificationsEnabled, settingsIsLoading, settingsStore,
                   isLoadingAzanState, isInitializing, timers,
                   loadAzanStatePc, azanStore, clock, SchedVars>>
    /\ rendered' = Snapshot'

\* SettingsContext's toggleNotifications, called from the settings switch; the
\* new value is committed and HomeScreen's effects run before the next event
toggleNotifications ==
    /\ Len(pendingWrites) < MaxPending
    /\ notificationsEnabled' = ~rendered.notificationsEnabled
    /\ Issue(StorageOp("settings", "set",
             JSONstringifySettings(~rendered.notificationsEnabled, rendered.azanEnabled),
             "none"))
    /\ LET cur == [Snapshot EXCEPT !.notificationsEnabled = ~rendered.notificationsEnabled]
       IN  /\ rendered' = cur
           /\ RunEffects(rendered, cur)
           /\ CountdownEffect(rendered, cur)
    /\ UNCHANGED <<AudioVars, twoStarts, storageError>>
    /\ UNCHANGED <<azanEnabled, settingsIsLoading, settingsStore,
                   isLoadingAzanState, isInitializing, timers,
                   loadAzanStatePc, azanStore, clock, newPrayerTimes,
                   fetchPc, scheduled, failures, ticks, completed,
                   remainingTime, nextPrayer, observed, mounted, errorMsg, prayerLoading>>

\* ------------------------------------------------------------- render
\* React commits the state set by async continuations and timers, and the
\* effects whose dependencies changed run
Render ==
    /\ mounted
    /\ rendered # Snapshot
    /\ rendered' = Snapshot
    /\ RunEffects(rendered, Snapshot)
    /\ CountdownEffect(rendered, Snapshot)
    /\ UNCHANGED <<AudioVars, twoStarts, storageError>>
    /\ UNCHANGED <<azanEnabled, notificationsEnabled, settingsIsLoading, settingsStore,
                   isLoadingAzanState, isInitializing, timers,
                   pendingWrites, loadAzanStatePc, azanStore, clock, newPrayerTimes,
                   fetchPc, scheduled, failures, ticks, completed,
                   remainingTime, nextPrayer, observed, mounted, errorMsg, prayerLoading>>

\* --------------------------------------------------- the audio session
Init ==
    /\ azanEnabled = TRUE
    /\ notificationsEnabled = TRUE
    /\ settingsIsLoading = TRUE
    /\ settingsStore \in {Null} \cup {JSONstringifySettings(TRUE, a) : a \in BOOLEAN}
    /\ azanPlaying = "null"
    /\ audioLoading = FALSE
    /\ isLoadingAzanState = TRUE
    /\ isInitializing = TRUE
    /\ soundRef = NoHandle
    /\ rendered = MountClosure
    /\ mgrSound = NoHandle
    /\ mgrIsPlaying = FALSE
    /\ handles = <<>>
    /\ tasks = EmptyBag
    /\ timers = <<"init">>
    /\ pendingWrites = <<>>
    /\ loadAzanStatePc = "getItem"
    /\ clock = StartClock
    /\ azanStore \in {Null,
                      JSONstringifyAzan(TRUE, (StartClock - FreshAge) * 1000),
                      JSONstringifyAzan(TRUE, StartClock * 1000 - GraceMs),
                      JSONstringifyAzan(TRUE, (StartClock - StaleAge) * 1000)}
    /\ lastAlert = "none"
    /\ twoStarts = FALSE
    /\ storageError = FALSE
    /\ newPrayerTimes = NoTimings
    /\ notificationsScheduled = FALSE
    /\ fetchPc = "location"
    /\ cycles = {}
    /\ cyclesBegun = 0
    /\ scheduled = {}
    /\ failures = 0
    /\ ticks = 0
    /\ completed = NoCycle
    /\ remainingTime = NoRemainingTime
    /\ nextPrayer = ""
    /\ observed = NothingObserved
    /\ intervals = <<>>
    /\ mounted = TRUE
    /\ errorMsg = "null"
    /\ prayerLoading = FALSE

\* steps of HomeScreen's playback session
HomeNext ==
    \/ PressPlay
    \/ PressStop
    \/ \E t \in DOMAIN tasks : HomePlayStopPrior(t)
    \/ \E t \in DOMAIN tasks : HomePlayUnloadPrior(t)
    \/ \E t \in DOMAIN tasks : HomePlayCreate(t)
    \/ \E t \in DOMAIN tasks : HomeStopStop(t)
    \/ \E t \in DOMAIN tasks : HomeStopUnload(t)
    \/ LoadAzanState
    \/ Render

\* steps of the notification listeners and of audioManager's session
MgrNext ==
    \/ \E t \in DOMAIN tasks : MgrPlayMode(t)
    \/ \E t \in DOMAIN tasks : MgrPlayStopPrior(t)
    \/ \E t \in DOMAIN tasks : MgrPlayUnloadPrior(t)
    \/ \E t \in DOMAIN tasks : MgrPlayCreate(t)
    \/ \E t \in DOMAIN tasks : MgrStopStop(t)
    \/ \E t \in DOMAIN tasks : MgrStopUnload(t)
    \/ \E title \in Titles : NotificationReceived(title)
    \/ \E title \in Titles : NotificationResponse(title)
    \/ \E i \in 1..Len(timers) : TimerFires(i)

Audio == \E h \in 1..Len(handles) : EndOfStream(h)

\* HomeScreen's playback session: the play/stop control, the persisted playback
\* state and the startup loads; the preference comes from the settings load
Next == HomeNext \/ LoadSettings \/ StorageComplete \/ Audio
Spec == Init /\ [][Next]_vars

\* the App-level notification listener and audioManager's playback session,
\* with the preference as the settings load finds it; no playback state was
\* persisted
MgrInit == Init /\ azanStore = Null
MgrStep == MgrNext \/ LoadSettings \/ Audio \/ Render
MgrSpec == MgrInit /\ [][MgrStep]_vars

\* the notification scheduler: HomeScreen's scheduling effect and the
\* background task, with the settings loaded and toggled, over a few seconds
\* around a prayer time
StartClocks ==
    {AtTimeOfDay(0, Today.Asr) - (FiveMinutesMs \div 1000) - 1}
SchedInit ==
    /\ azanEnabled = TRUE
    /\ notificationsEnabled = TRUE
    /\ settingsIsLoading = TRUE
    /\ settingsStore \in {Null, JSONstringifySettings(FALSE, TRUE)}
    /\ azanPlaying = "null"
    /\ audioLoading = FALSE
    /\ isLoadingAzanState = TRUE
    /\ isInitializing = TRUE
    /\ soundRef = NoHandle
    /\ rendered = MountClosure
    /\ mgrSound = NoHandle
    /\ mgrIsPlaying = FALSE
    /\ handles = <<>>
    /\ tasks = EmptyBag
    /\ timers = <<"init">>
    /\ pendingWrites = <<>>
    /\ loadAzanStatePc = "getItem"
    /\ clock \in StartClocks
    /\ azanStore = Null
    /\ lastAlert = "none"
    /\ twoStarts = FALSE
    /\ storageError = FALSE
    /\ newPrayerTimes = NoTimings
    /\ notificationsScheduled = FALSE
    /\ fetchPc = "location"
    /\ cycles = {}
    /\ cyclesBegun = 0
    /\ scheduled = {}
    /\ failures = 0
    /\ ticks = 0
    /\ completed = NoCycle
    /\ remainingTime = NoRemainingTime
    /\ nextPrayer = ""
    /\ observed = NothingObserved
    /\ intervals = <<>>
    /\ mounted = TRUE
    /\ errorMsg = "null"
    /\ prayerLoading = FALSE
SchedNext ==
    \/ \E c \in cycles : HomeSchedCancelled(c)
    \/ \E c \in cycles : HomeSchedCreated(c)
    \/ \E c \in cycles : HomeCancelled(c)
    \/ \E c \in cycles : MgrSchedCancelled(c)
    \/ \E c \in cycles : MgrSchedCreated(c)
    \/ BackgroundFetchTask(Tomorrow)
    \/ \E i \in 1..Len(timers) : TimerFires(i)
    \/ GetUserLocation
    \/ GetPrayerTimes
    \/ toggleNotifications /\ cyclesBegun' <= MaxCycles
    \/ Render /\ cyclesBegun' <= MaxCycles
    \/ Tick
SchedStep == SchedNext \/ LoadSettings \/ StorageComplete
SchedSpec == SchedInit /\ [][SchedStep]_vars


\* ------------------------------------------------------------- claims
NumKind(k) == BagCardinality([t \in {u \in DOMAIN tasks : u.kind = k} |-> tasks[t]])

\* C1: two starts in immediate succession from Idle (the second begins while
\* the first is still creating its handle) leave exactly one active audio
\* handle once both have completed.
C1_TwoStartsOneHandle ==
    (twoStarts /\ tasks = EmptyBag) => Cardinality(ActiveHandles) = 1

\* C2: in every reachable state at most one audio handle has been created and
\* not yet released.
C2_AtMostOneHandle == Cardinality(ActiveHandles) <= 1

\* C3: once a handle started by HomeScreen's playAzan has reported its natural
\* end of stream, the session goes Idle as if stopAzan had been called: a
\* stopAzan is in flight, or azanPlaying is already false and, with no storage
\* call outstanding, the persisted state does not say playing.
C3_EndOfStreamStops ==
    \A h \in 1..Len(handles) :
        (handles[h].owner = "home" /\ handles[h].st = "ended") =>
            \/ NumKind("homeStop") > 0
            \/ /\ azanPlaying = "false"
               /\ pendingWrites = <<>> => azanStore = Null

C5_FailureLeavesIdle ==
    [][(NumKind("homePlay")' < NumKind("homePlay") /\ Len(handles') = Len(handles)) =>
          /\ lastAlert' = "Audio Error"
          /\ ~audioLoading'
          /\ azanPlaying' # "true"]_vars

C5_Witness ==
    /\ lastAlert = "Audio Error"
    /\ ~audioLoading
    /\ azanPlaying = "false"
    /\ NumKind("homePlay") = 0

\* C6: no audio handle is ever created for a start that was requested while
\* the azanEnabled preference was false.
C6_NoStartWhenDisabled ==
    \A h \in 1..Len(handles) : handles[h].en

\* C7: when schedulePrayerNotifications has been called twice in a row, the
\* second call after the first returned, with the same timings, and the second
\* has returned, every scheduled prayer reminder was created by the second
\* call and carries the time of day of its prayer, there is at most one per
\* prayer name and there are at most five: the set a single call leaves.
C7_SecondCallLeavesOneSet ==
    (cycles = {} /\ completed.second /\ completed.impl # "cancel") =>
        /\ \A n \in PrayerReminders :
              /\ n.by = completed.id
              /\ n.trigger % SecondsPerDay =
                     AtTimeOfDay(0, completed.timings[n.prayerName])
        /\ \A n, m \in PrayerReminders : n.prayerName = m.prayerName => n = m
        /\ Cardinality(PrayerReminders) <= Len(Prayers)

C7_Witness ==
    /\ cycles = {}
    /\ completed.second
    /\ completed.impl = "home"
    /\ Cardinality(PrayerReminders) >= Len(Prayers) - 1

\* C8: while a scheduling cycle is in flight, no notification that was
\* scheduled before the cycle began exists together with a reminder the cycle
\* created: the cycle's cancel-all has completed before its first creation.
C8_CancelBeforeCreate ==
    \A c \in cycles :
        \A n, m \in scheduled : ~(n.gen < c.id /\ m.by = c.id)

C8_Witness ==
    \E c \in cycles :
        /\ c.pc = "create"
        /\ \E m \in scheduled : m.by = c.id
        /\ completed.id = c.id - 1
        /\ completed.impl # "cancel"
        /\ completed.returned /\ ~completed.failed

\* C9: every scheduled prayer reminder, whichever entry point created it, has
\* a trigger more than five minutes after the now it was computed from.
C9_MoreThanFiveMinutesAhead ==
    \A n \in PrayerReminders : n.ahead

\* C10: a scheduling cycle in which the creation of one reminder threw has
\* gone on to every remaining prayer: it ends with no prayer left unattempted.
C10_FailureDoesNotAbort ==
    completed.failed => completed.abandoned = 0

\* C11: every scheduled prayer reminder has its prayer's time of day, on the
\* day of the now it was computed from when that instant is strictly after
\* now and one day later when it is at or before now: the trigger is the first
\* such instant strictly after now.
C11_TriggerIsNextOccurrence ==
    \A n \in PrayerReminders :
        /\ n.first
        /\ \E c \in {Today, Tomorrow} :
              n.trigger % SecondsPerDay = AtTimeOfDay(0, c[n.prayerName])


\* the countdown alone, its interval set: getNextPrayer and getRemainingTime
\* applied, second after second, to the timetable of the day and to the timetable of a summer
\* day at a high latitude, whose Isha falls after midnight
Summer ==
    [Fajr |-> <<"0", "2", ":", "3", "0">>, Dhuhr |-> <<"1", "3", ":", "1", "0">>,
     Asr |-> <<"1", "7", ":", "3", "0">>, Maghrib |-> <<"2", "2", ":", "1", "0">>,
     Isha |-> <<"0", "0", ":", "2", "0">>]
Timetables == {Today, Summer}
\* two instants of the day, between Dhuhr and Asr and after Isha
EarlyAfternoon == AtTimeOfDay(0, <<"1", "3", ":", "0", "0">>)
Evening == AtTimeOfDay(0, <<"2", "0", ":", "3", "0">>)
\* shortly before a prayer of each timetable, after the last prayer, and the
\* two instants above
TimeStartClocks ==
    {AtTimeOfDay(0, Today.Dhuhr) - Lead, AtTimeOfDay(0, Summer.Isha) - Lead,
     AtTimeOfDay(0, Today.Isha) + Lead, EarlyAfternoon, Evening}
TimeInit ==
    /\ azanEnabled = TRUE
    /\ notificationsEnabled = TRUE
    /\ settingsIsLoading = TRUE
    /\ settingsStore = Null
    /\ azanPlaying = "null"
    /\ audioLoading = FALSE
    /\ isLoadingAzanState = TRUE
    /\ isInitializing = TRUE
    /\ soundRef = NoHandle
    /\ mgrSound = NoHandle
    /\ mgrIsPlaying = FALSE
    /\ handles = <<>>
    /\ tasks = EmptyBag
    /\ timers = <<"init">>
    /\ pendingWrites = <<>>
    /\ loadAzanStatePc = "getItem"
    /\ clock \in TimeStartClocks
    /\ azanStore = Null
    /\ lastAlert = "none"
    /\ twoStarts = FALSE
    /\ storageError = FALSE
    /\ newPrayerTimes \in Timetables
    /\ notificationsScheduled = FALSE
    /\ fetchPc = "done"
    /\ cycles = {}
    /\ cyclesBegun = 0
    /\ scheduled = {}
    /\ failures = 0
    /\ ticks = 0
    /\ completed = NoCycle
    /\ remainingTime = NoRemainingTime
    /\ nextPrayer = ""
    /\ observed = NothingObserved
    /\ mounted = TRUE
    /\ errorMsg = "null"
    /\ prayerLoading = FALSE
    /\ rendered = [MountClosure EXCEPT !.newPrayerTimes = newPrayerTimes]
    /\ intervals = <<newPrayerTimes>>
TimeNext ==
    \/ \E i \in DOMAIN intervals : CountdownInterval(i)
    \/ \E i \in DOMAIN Prayers : GetRemainingTime(Prayers[i])
    \/ Second
TimeSpec == TimeInit /\ [][TimeNext]_vars

\* the prayers of a timetable whose instant on the day of now is strictly
\* after now
StrictlyAfter(timings, now) ==
    {i \in DOMAIN Prayers : AtTimeOfDay(now, timings[Prayers[i]]) > now}

\* C12: the prayer getNextPrayer returned is one of the five names; when
\* some prayer of the day is strictly after the now of the call, it is one of
\* those and none of those is earlier in the day; when none is, it is Fajr.
C12_NextPrayerIsEarliestAfterNow ==
    nextPrayer # "" =>
        LET now == observed.nextAt
            later == StrictlyAfter(newPrayerTimes, now)
        IN  /\ \E i \in DOMAIN Prayers : nextPrayer = Prayers[i]
            /\ IF later = {}
               THEN nextPrayer = "Fajr"
               ELSE /\ \E i \in later : nextPrayer = Prayers[i]
                    /\ \A i \in later :
                          AtTimeOfDay(now, newPrayerTimes[nextPrayer])
                              <= AtTimeOfDay(now, newPrayerTimes[Prayers[i]])

\* C13: the total of getRemainingTime for a prayer is never negative; called
\* one second after a call for the same prayer, it is smaller than that
\* call's total, except at the second that reaches the prayer's instant,
\* where it is the positive distance to the next day's occurrence.
C13_CountsDownThenResets ==
    observed.arg # "" =>
        /\ TotalSeconds(remainingTime) >= 0
        /\ observed.prev # -1 =>
              IF AtTimeOfDay(observed.at, newPrayerTimes[observed.arg]) = observed.at
              THEN TotalSeconds(remainingTime) > observed.prev
              ELSE TotalSeconds(remainingTime) < observed.prev

\* C14: the total of getRemainingTime for a prayer is the distance from the
\* now of the call to the prayer's instant on that day when the instant is
\* strictly after now, and to the instant one day later otherwise.
C14_DistanceToNextOccurrence ==
    observed.arg # "" =>
        LET now == observed.at
            today == AtTimeOfDay(now, newPrayerTimes[observed.arg])
        IN  TotalSeconds(remainingTime) =
                IF today > now THEN today - now ELSE NextDay(today) - now


\* the age of the persisted playback entry, in milliseconds
EntryAge == DateNow - JSONparse(azanStore, "timestamp")

\* C15: when loadAzanState finishes after finding an entry that says playing
\* and is older than the grace window, and no storage call has thrown, the
\* entry is gone from storage and azanPlaying is false.
C15_StaleEntryComesUpNotPlaying ==
    [][(/\ loadAzanStatePc = "removeItem" /\ loadAzanStatePc' = "done"
        /\ azanStore # Null /\ JSONparse(azanStore, "isPlaying")
        /\ EntryAge > GraceMs
        /\ ~storageError')
       => (azanStore' = Null /\ azanPlaying' = "false")]_vars

\* C16: when loadAzanState reads an entry that says playing and is not older
\* than the grace window, the boundary included, it does not discard the
\* entry, and azanPlaying becomes true unless the read has thrown.
C16_EntryWithinGraceRestored ==
    [][(/\ loadAzanStatePc = "getItem" /\ loadAzanStatePc' # "getItem"
        /\ azanStore # Null /\ JSONparse(azanStore, "isPlaying")
        /\ EntryAge <= GraceMs)
       => (/\ loadAzanStatePc' = "done"
           /\ pendingWrites' = pendingWrites
           /\ storageError' \/ azanPlaying' = "true")]_vars


\* C17: once the startup load has restored playing with no audio handle, a
\* press of Stop ends within the call, without an alert: azanPlaying is false,
\* the removal of the persisted entry is issued, and the control shows Play
\* and is usable; and when that removal has settled and no storage call has
\* thrown, no entry is left in storage.
C17_StopReconcilesRecovery ==
    [][/\ (handles = <<>> /\ azanPlaying = "true" /\ PressStop)
            => /\ azanPlaying' = "false"
               /\ tasks' = tasks
               /\ lastAlert' = lastAlert
               /\ pendingWrites' =
                      Append(pendingWrites, StorageOp("azan", "remove", Null, "none"))
               /\ ButtonEnabled'
               /\ rendered'.azanPlaying = "false"
       /\ (/\ handles' = <<>> /\ azanPlaying' = "false"
           /\ pendingWrites' = <<>> /\ ~storageError')
            => azanStore' = Null]_vars
\* the restored session was stopped, its removal is still outstanding, and a
\* following playAzan is under way
C17_Witness ==
    /\ handles = <<>>
    /\ azanPlaying = "false"
    /\ azanStore # Null
    /\ pendingWrites = <<StorageOp("azan", "remove", Null, "none")>>
    /\ NumKind("homePlay") = 1


\* what loadAzanState would restore from a stored value after a restart now
RestoresPlaying(store) ==
    /\ store # Null
    /\ JSONparse(store, "isPlaying")
    /\ DateNow - JSONparse(store, "timestamp") < GraceMs

\* the removal that saveAzanState(false) issues
AzanRemoval == StorageOp("azan", "remove", Null, "none")

\* C18: a stopAzan called while the session is Playing, from the control or
\* from the end-of-stream callback, leaves nothing in storage that a restart
\* would restore as playing: one that awaits the handle ends by issuing the
\* removal of the persisted entry, whether stopping and unloading succeeded
\* or threw; when that removal settles without a storage call having thrown,
\* a restart would not restore playing; and one that returns within the call
\* with no storage call outstanding leaves storage so too.
C18_StopLeavesNothingPlayingStored ==
    [][/\ (\/ NumKind("homeStop")' < NumKind("homeStop")
           \/ (PressStop /\ soundRef = NoHandle /\ azanPlaying = "true"))
            => pendingWrites' = Append(pendingWrites, AzanRemoval)
       /\ (/\ pendingWrites # <<>> /\ Head(pendingWrites) = AzanRemoval
           /\ pendingWrites' = Tail(pendingWrites)
           /\ ~storageError')
            => ~RestoresPlaying(azanStore')
       /\ (/\ azanPlaying = "true"
           /\ \E h \in 1..Len(handles) :
                 /\ handles[h].owner = "home"
                 /\ handles[h].st = "playing" /\ handles'[h].st = "ended"
           /\ NumKind("homeStop")' = NumKind("homeStop")
           /\ pendingWrites' = <<>>)
            => ~RestoresPlaying(azanStore')]_vars


\* the persisted playback state reads playing
SaysPlaying == azanStore # Null /\ JSONparse(azanStore, "isPlaying")

C20_StopWhileIdleChangesNothing ==
    [][(/\ azanPlaying = "false"
        /\ \/ PressStop
           \/ \E h \in 1..Len(handles) :
                 handles[h].owner = "home" /\ EndOfStream(h))
       => UNCHANGED <<soundRef, azanPlaying, audioLoading, azanStore,
                      pendingWrites, tasks>>]_vars


\* the view from mount to teardown: the location and the prayer times load,
\* whatever the provider answers, the countdown runs, and HomeScreen unmounts
ViewInit == Init /\ azanStore = Null
ViewNext ==
    \/ \E outcome \in {"position", "denied", "threw"} : getUserLocation(outcome)
    \/ \E response \in Responses : getPrayerTimes(response)
    \/ Render
    \/ \E i \in DOMAIN intervals : CountdownInterval(i)
    \/ Second
    \/ Unmount
    \/ LoadSettings
ViewSpec == ViewInit /\ [][ViewNext]_vars

\* C21: at most one countdown interval is set, each interval that is set
\* closed over the newPrayerTimes now published, none is set once HomeScreen
\* has unmounted, and a countdown callback only ever runs in a mounted
\* HomeScreen.
C21_OneCurrentCountdownInterval ==
    [][/\ Len(intervals') <= 1
       /\ \A i \in DOMAIN intervals' : intervals'[i] = newPrayerTimes'
       /\ ~mounted' => intervals' = <<>>
       /\ (\E i \in DOMAIN intervals : CountdownInterval(i)) => mounted]_vars
\* the countdown ran on the published timings, and HomeScreen has unmounted
C21_Witness ==
    /\ ~mounted
    /\ intervals = <<>>
    /\ newPrayerTimes = Today
    /\ observed.nextAt # -1


\* C22: when the request of getPrayerTimes fails (a rejected fetch, a response
\* that is not ok, a malformed body) newPrayerTimes stays as it was, errorMsg
\* is the failure message and prayerLoading is false; and newPrayerTimes is
\* only ever replaced by timings with all five times present.
C22_FetchFailureLeavesTimings ==
    [][/\ \A response \in Responses \ {"ok"} :
             getPrayerTimes(response)
                 => /\ newPrayerTimes' = newPrayerTimes
                    /\ errorMsg' = FetchFailedMsg
                    /\ ~prayerLoading'
       /\ newPrayerTimes' # newPrayerTimes => AllTimesPresent(newPrayerTimes')]_vars


\* C23: a playAzan that ends without a new handle (a failed stopAsync,
\* unloadAsync or createAsync) leaves the session Idle, azanPlaying false and
\* audioLoading false; a stopAzan that ends, whether its calls failed or not,
\* leaves azanPlaying false; and whenever the session is Idle with no call in
\* flight, a handle left in sound.current is still loaded, so that the
\* stopAsync a later playAzan begins with can succeed and the leftover
\* reference cannot keep it from reaching createAsync.
C23_FailuresLeaveRetriableIdle ==
    [][/\ (NumKind("homePlay")' < NumKind("homePlay") /\ Len(handles') = Len(handles))
            => (azanPlaying' = "false" /\ ~audioLoading')
       /\ NumKind("homeStop")' < NumKind("homeStop") => azanPlaying' = "false"
       /\ (tasks' = EmptyBag /\ azanPlaying' = "false" /\ soundRef' # NoHandle)
            => handles'[soundRef'].st \in {"playing", "ended", "stopped"}]_vars


\* C24: with the timetable of the day (Fajr 05:00, Dhuhr 12:30, Asr 15:45,
\* Maghrib 18:20, Isha 19:50), getNextPrayer called at 13:00:00 returns Asr,
\* and getRemainingTime of Asr's time called at 13:00:00 returns 2 hours,
\* 45 minutes, 0 seconds.
C24_EarlyAfternoonScenario ==
    newPrayerTimes = Today =>
        /\ (nextPrayer # "" /\ observed.nextAt = EarlyAfternoon) => nextPrayer = "Asr"
        /\ (observed.arg = "Asr" /\ observed.at = EarlyAfternoon)
              => remainingTime = [hours |-> 2, minutes |-> 45, seconds |-> 0]
\* the countdown callback has run at 13:00:00
C24_Witness ==
    /\ newPrayerTimes = Today
    /\ observed.nextAt = EarlyAfternoon /\ nextPrayer = "Asr"
    /\ observed.arg = "Asr" /\ observed.at = EarlyAfternoon
    /\ remainingTime = [hours |-> 2, minutes |-> 45, seconds |-> 0]

\* C25: with the same timetable, getNextPrayer called at 20:30:00 returns
\* Fajr, and getRemainingTime of Fajr's time, 05:00, called at 20:30:00 counts
\* to 05:00 of the next day: 8 hours, 30 minutes, 0 seconds.
C25_EveningScenario ==
    newPrayerTimes = Today =>
        /\ (nextPrayer # "" /\ observed.nextAt = Evening) => nextPrayer = "Fajr"
        /\ (observed.arg = "Fajr" /\ observed.at = Evening)
              => remainingTime = [hours |-> 8, minutes |-> 30, seconds |-> 0]
\* the countdown callback has run at 20:30:00
C25_Witness ==
    /\ newPrayerTimes = Today
    /\ observed.nextAt = Evening /\ nextPrayer = "Fajr"
    /\ observed.arg = "Fajr" /\ observed.at = Evening
    /\ remainingTime = [hours |-> 8, minutes |-> 30, seconds |-> 0]


\* C26: once the initialization delay has elapsed and with azanEnabled true,
\* the receipt in the foreground, or the tap, of an Azan Time notification
\* makes HomeScreen's listener set the timer whose callback invokes
\* HomeScreen's playAzan.
C26_NotificationStartsPlayback ==
    [][(/\ ~isInitializing /\ azanEnabled /\ ~settingsIsLoading
        /\ \/ NotificationReceived(AzanTitle)
           \/ NotificationResponse(AzanTitle))
       => \E i \in DOMAIN timers' : timers'[i] = "playAzan"]_vars


\* C27: a scheduling cycle creates prayer reminders only while
\* notificationsEnabled is true, and a cycle that runs while it is false
\* cancels every scheduled notification.
C27_SchedulerReadsPreference ==
    [][/\ (\E n \in scheduled' \ scheduled : n.title \in {AzanTitle, ManagerTitle})
            => notificationsEnabled
       /\ \A c \in cycles :
            (~notificationsEnabled /\ HomeCancelled(c) /\ failures' = failures)
                => scheduled' = {}]_vars


\* HomeScreen's scheduling effect and its notification listeners, from the
\* mount to a few cycles after the initialization delay: no settings were
\* stored, and the settings write of a toggle stays pending, so pendingWrites
\* holds one write per change of notificationsEnabled
CycleInit == SchedInit /\ settingsStore = Null
CycleNext ==
    \/ \E c \in cycles : HomeSchedCancelled(c)
    \/ \E c \in cycles : HomeSchedCreated(c)
    \/ \E c \in cycles : HomeCancelled(c)
    \/ \E i \in 1..Len(timers) : TimerFires(i)
    \/ GetUserLocation
    \/ GetPrayerTimes
    \/ LoadSettings
    \/ \E title \in Titles : NotificationReceived(title)
    \/ \E title \in Titles : NotificationResponse(title)
    \/ toggleNotifications /\ cyclesBegun' <= MaxStarts
    \/ Render /\ cyclesBegun' <= MaxStarts
CycleSpec == CycleInit /\ [][CycleNext]_vars

\* C28: the scheduling effect starts one cycle for the loading of the
\* timings (once the initialization delay has elapsed) and one for each
\* change of notificationsEnabled, and no more: a cycle is not started again
\* by the state updates of a cycle.
C28_OneCyclePerChange ==
    cyclesBegun <= 1 + Len(pendingWrites)


\* C29: while isInitializing is true, no step starts a scheduling cycle of
\* HomeScreen, and no notification, received or tapped, sets the timer that
\* calls HomeScreen's playAzan or starts a playAzan of HomeScreen.
C29_NothingStartsWhileInitializing ==
    [][isInitializing =>
          /\ cyclesBegun' = cyclesBegun
          /\ \A c \in cycles' : c \in cycles \/ c.impl \notin {"home", "cancel"}
          /\ \A i \in DOMAIN timers' : timers'[i] # "playAzan"
          /\ NumKind("homePlay")' = 0]_vars
\* still initializing, with the timings and the settings loaded and rendered
\* and an Azan Time notification received: nothing was started
C29_Witness ==
    /\ isInitializing /\ rendered = Snapshot
    /\ newPrayerTimes = Today /\ ~settingsIsLoading /\ ~notificationsScheduled
    /\ NumKind("mgrPlay") > 0
    /\ cyclesBegun = 0 /\ cycles = {}
    /\ NumKind("homePlay") = 0


\* HomeScreen's playback session with the teardown of the view
TeardownNext == Next \/ Unmount
TeardownSpec == Init /\ [][TeardownNext]_vars

\* C30: tearing down the HomeScreen view while its audio is playing leaves
\* the handle playing: the teardown neither stops nor releases it, so the
\* playing state shown and persisted still describes a handle that plays.
C30_TeardownLeavesPlayback ==
    [][(/\ mounted /\ ~mounted'
        /\ azanPlaying = "true"
        /\ soundRef # NoHandle /\ handles[soundRef].st = "playing")
       => handles'[soundRef].st = "playing"]_vars


\* C31: once loadAzanState has completed, on whichever branch, azanPlaying
\* is true or false, never null, and isLoadingAzanState is false, so the
\* play/stop control is not left disabled.
C31_LoadLeavesDefiniteState ==
    loadAzanStatePc = "done" =>
        (azanPlaying \in {"true", "false"} /\ ~isLoadingAzanState)


\* C32: once every scheduling cycle has completed, whatever the overlap of
\* the cycles of HomeScreen and of the background task, there is at most one
\* scheduled reminder for each prayer name.
C32_OneReminderPerPrayer ==
    cycles = {} =>
        \A n1, n2 \in PrayerReminders : n1.prayerName = n2.prayerName => n1 = n2


\* C33: when the user has turned notificationsEnabled off, at whatever
\* moment, and everything asynchronous has completed (no cycle in flight, no
\* timer pending, the last state rendered), no prayer reminder remains
\* scheduled and notificationsScheduled is false.
C33_OffLeavesNothingScheduled ==
    (/\ ~notificationsEnabled /\ pendingWrites # <<>>
     /\ newPrayerTimes # NoTimings /\ ~isInitializing
     /\ cycles = {} /\ timers = <<>> /\ rendered = Snapshot)
    => (PrayerReminders = {} /\ ~notificationsScheduled)


\* HomeScreen's schedulePrayerNotifications alone: the timings are loaded and
\* rendered, the initialization timer is pending; the timetable of the day and
\* one whose Isha falls two minutes after midnight, at instants around the
\* five-minute limit and shortly before midnight
NearMidnight == [Today EXCEPT !.Isha = <<"0", "0", ":", "0", "2">>]
BeforeMidnight == AtTimeOfDay(0, <<"2", "3", ":", "5", "8">>)
ReminderClocks ==
    {AtTimeOfDay(0, Today.Asr) - (FiveMinutesMs \div 1000) - 1,
     AtTimeOfDay(0, Today.Asr) - (FiveMinutesMs \div 1000),
     AtTimeOfDay(0, Today.Asr),
     BeforeMidnight}
ReminderInit ==
    /\ azanEnabled = TRUE
    /\ notificationsEnabled = TRUE
    /\ settingsIsLoading = TRUE
    /\ settingsStore = Null
    /\ azanPlaying = "null"
    /\ audioLoading = FALSE
    /\ isLoadingAzanState = TRUE
    /\ isInitializing = TRUE
    /\ soundRef = NoHandle
    /\ mgrSound = NoHandle
    /\ mgrIsPlaying = FALSE
    /\ handles = <<>>
    /\ tasks = EmptyBag
    /\ timers = <<"init">>
    /\ pendingWrites = <<>>
    /\ loadAzanStatePc = "getItem"
    /\ clock \in ReminderClocks
    /\ azanStore = Null
    /\ lastAlert = "none"
    /\ twoStarts = FALSE
    /\ storageError = FALSE
    /\ newPrayerTimes \in {Today, NearMidnight}
    /\ notificationsScheduled = FALSE
    /\ fetchPc = "done"
    /\ cycles = {}
    /\ cyclesBegun = 0
    /\ scheduled = {}
    /\ failures = 0
    /\ ticks = 0
    /\ completed = NoCycle
    /\ remainingTime = NoRemainingTime
    /\ nextPrayer = ""
    /\ observed = NothingObserved
    /\ mounted = TRUE
    /\ errorMsg = "null"
    /\ prayerLoading = FALSE
    /\ rendered = [MountClosure EXCEPT !.newPrayerTimes = newPrayerTimes]
    /\ intervals = <<newPrayerTimes>>
ReminderNext ==
    \/ \E c \in cycles : HomeSchedCancelled(c)
    \/ \E c \in cycles : HomeSchedCreated(c)
    \/ \E i \in 1..Len(timers) : TimerFires(i)
    \/ LoadSettings
    \/ Render /\ cyclesBegun' <= MaxCycles
ReminderSpec == ReminderInit /\ [][ReminderNext]_vars

\* the reminder that HomeScreen's cycle c has left for prayer p
HomeReminderOf(c, p) ==
    {n \in scheduled : n.title = AzanTitle /\ n.by = c.id /\ n.prayerName = p}

C35_IdleHoldsNoHandle ==
    (azanPlaying = "false" /\ ~audioLoading /\ tasks = EmptyBag)
    => (soundRef = NoHandle /\ \A h \in 1..Len(handles) : ~Loaded(h))


\* SettingsProvider alone: the initial load, the two toggles and the settling
\* of their writes
SettingsInit == Init /\ azanStore = Null
SettingsNext ==
    \/ LoadSettings
    \/ toggleNotifications
    \/ toggleAzan
    \/ StorageComplete
    \/ Render
SettingsSpec == SettingsInit /\ [][SettingsNext]_vars

\* C36: when the write of a toggle settles, written, as the last outstanding
\* storage operation, the initial load being complete, the persisted
\* settings equal the notificationsEnabled and azanEnabled held in memory.
C36_PersistedSettingsEqualMemory ==
    [][(/\ pendingWrites # <<>> /\ pendingWrites' = <<>>
        /\ Head(pendingWrites).key = "settings"
        /\ settingsStore' = Head(pendingWrites).val
        /\ ~settingsIsLoading)
       => settingsStore' = JSONstringifySettings(notificationsEnabled', azanEnabled')]_vars


\* C37: for every prayer time and every now, the value returned by
\* getRemainingTime has 0 <= seconds <= 59, 0 <= minutes <= 59 and
\* 0 <= hours <= 23, and hours * 3600 + minutes * 60 + seconds is the number
\* of seconds from now to the occurrence it chose: the one of today unless
\* that is before now, then the one of tomorrow.
C37_RemainingTimeInRange ==
    observed.arg # "" =>
        LET now == observed.at
            today == AtTimeOfDay(now, newPrayerTimes[observed.arg])
            chosen == IF today < now THEN NextDay(today) ELSE today
        IN  /\ remainingTime.seconds \in 0..59
            /\ remainingTime.minutes \in 0..59
            /\ remainingTime.hours \in 0..23
            /\ TotalSeconds(remainingTime) = chosen - now
\* getRemainingTime has been called for Isha shortly after Isha: nearly a
\* whole day remains
C37_Witness ==
    /\ newPrayerTimes = Today
    /\ observed.arg = "Isha" /\ observed.at = AtTimeOfDay(0, Today.Isha) + Lead
    /\ remainingTime = [hours |-> 23, minutes |-> 59, seconds |-> 60 - Lead]

====
